---- MODULE Spec2Model ----
(***************************************************************************)
(* Model of Pdfifier/src/backend/article_processor.py: one run of          *)
(* ArticleProcessor.process_articles over a CSV of links, with the         *)
(* tracking file, the in-memory processed set, the output directory,       *)
(* standard output and the per-article pipeline fetch_content ->           *)
(* safe_title -> to_pdf -> _save_processed_link.  Strings are sequences of *)
(* one-character strings.                                                  *)
(***************************************************************************)
EXTENDS Integers, Sequences, FiniteSets, TLC

\* ---------------------------------------------------------------- bounds
MaxInput == 2      \* fields read from the CSV, in reading order
MaxFile == 1       \* lines of the tracking file before the run
MaxImages == 2     \* image URLs extracted from one article

\* ------------------------------------------------------------ input sets
Whitespace == {" "}
AlnumChars == {"a", "b", "u", "n", "t", "i", "l", "e", "d"}
\* Characters an ASCII standard output cannot encode.
NonAscii == {"U+4E2D"}

\* CSV fields: an empty field, a URL padded with whitespace, a URL with a
\* non-ASCII character.
RawLinks == {<<>>, <<" ", "a">>, <<"U+4E2D">>}

\* encoding='utf-8': the bytes of one character.
Utf8(c) == IF c = "U+4E2D" THEN <<"e4", "b8", "ad">> ELSE <<c>>

RECURSIVE Encode(_)
Encode(s) == IF s = <<>> THEN <<>> ELSE Utf8(Head(s)) \o Encode(Tail(s))

\* Reading bytes back as text: the characters, or ok = FALSE where Python
\* raises UnicodeDecodeError (a multi-byte character cut short).
Undecodable == [ok |-> FALSE, chars |-> <<>>]
RECURSIVE Decode(_)
Decode(b) ==
  IF b = <<>> THEN [ok |-> TRUE, chars |-> <<>>]
  ELSE IF Head(b) = "e4"
  THEN IF Len(b) >= 3 /\ b[2] = "b8" /\ b[3] = "ad"
       THEN LET r == Decode(SubSeq(b, 4, Len(b)))
            IN [ok |-> r.ok, chars |-> <<"U+4E2D">> \o r.chars]
       ELSE Undecodable
  ELSE IF Head(b) \in {"b8", "ad"} THEN Undecodable
  ELSE LET r == Decode(Tail(b))
       IN [ok |-> r.ok, chars |-> <<Head(b)>> \o r.chars]

\* Tracking-file lines as found at startup, as bytes: blank and padded
\* lines, and a line that ends inside a character.
FileLines ==
  {Encode(l) : l \in {<<>>, <<"a">>, <<"U+4E2D", " ">>}} \cup {<<"e4">>}

SeqsUpTo(S, n) == UNION {[1..k -> S] : k \in 0..n}

\* ------------------------------------------------------- pure functions
RECURSIVE LStrip(_)
LStrip(s) ==
  IF s = <<>> THEN <<>>
  ELSE IF Head(s) \in Whitespace THEN LStrip(Tail(s)) ELSE s

RECURSIVE RStrip(_)
RStrip(s) ==
  IF s = <<>> THEN <<>>
  ELSE IF s[Len(s)] \in Whitespace THEN RStrip(SubSeq(s, 1, Len(s) - 1)) ELSE s

\* str.strip()
Strip(s) == RStrip(LStrip(s))

\* A text file: the bytes of its lines, and whether the last one ends with
\* a newline (an empty file counts as ended).
TrackingFiles ==
  {f \in [lines : SeqsUpTo(FileLines, MaxFile), nl : BOOLEAN] :
     f.nl \/ (f.lines # <<>> /\ f.lines[Len(f.lines)] # <<>>)}

\* The file after the bytes text, then a newline if newline, were written
\* at its end (mode 'a'): text continues an unended last line.
WriteAtEnd(file, text, newline) ==
  IF text = <<>> /\ ~newline THEN file
  ELSE IF file.nl
  THEN [lines |-> Append(file.lines, text), nl |-> newline]
  ELSE [lines |-> [file.lines EXCEPT ![Len(file.lines)] = @ \o text],
        nl |-> newline]

\* The whole file can be read back as text.
Decodable(file) == \A i \in 1..Len(file.lines) : Decode(file.lines[i]).ok

\* _load_processed_links: set(line.strip() for line in f if line.strip());
\* ok = FALSE where reading the file raises UnicodeDecodeError, which
\* makes the constructor raise.
LoadProcessedLinks(file) ==
  IF Decodable(file)
  THEN [ok |-> TRUE,
        links |-> {Strip(Decode(file.lines[i]).chars) :
                     i \in {j \in 1..Len(file.lines) :
                              Strip(Decode(file.lines[j]).chars) # <<>>}}]
  ELSE [ok |-> FALSE, links |-> {}]

URLs == {Strip(r) : r \in RawLinks} \ {<<>>}


\* Article.title after fetch_content: a string, or None.
None == [none |-> TRUE, chars |-> <<>>]
Str(s) == [none |-> FALSE, chars |-> s]
Untitled == <<"u", "n", "t", "i", "t", "l", "e", "d">>

\* The page's <title>: absent, present without a single string, or a string.
Pages == {[tag |-> FALSE, string |-> None],
          [tag |-> TRUE, string |-> None],
          [tag |-> TRUE, string |-> Str(<<"a", " ">>)],
          [tag |-> TRUE, string |-> Str(<<"a", "-">>)]}

\* soup.title.string if soup.title else 'untitled'
TitleOf(page) == IF page.tag THEN page.string ELSE Str(Untitled)

\* safe_title: ''.join(c if c.isalnum() else '_' for c in (title or 'untitled'))
SafeTitle(title) ==
  LET t == IF title.none \/ title.chars = <<>> THEN Untitled ELSE title.chars
  IN [i \in 1..Len(t) |-> IF t[i] \in AlnumChars THEN t[i] ELSE "_"]

\* os.path.join(output_dir, safe_title + ".pdf"), relative to output_dir
PdfPath(title) == SafeTitle(title) \o <<".pdf">>
\* pdf_path + '_img.jpg'
ImgPath(path) == path \o <<"_img.jpg">>

IsPdf(path) == path # <<>> /\ path[Len(path)] = ".pdf"
IsTempImage(path) == path # <<>> /\ path[Len(path)] = "_img.jpg"

\* Variant of SkipLink that tests only for the empty link.
SkipLinkNoSet(link, processed) == link = <<>>
\* line 55: not link or link in self.processed_links
SkipLink(link, processed) == link = <<>> \/ link \in processed

\* Outcomes of one iteration of the image loop (lines 129-137).
ImageOutcomes == {"get_fail", "open_fail", "write_fail", "embed_fail", "ok"}

\* Files on disk after one iteration of the image loop.
ImageDisk(outcome, files, img_path) ==
  CASE outcome \in {"get_fail", "open_fail"} -> files
    [] outcome \in {"write_fail", "embed_fail"} -> files \cup {img_path}
    [] outcome = "ok" -> files \ {img_path}

NoArticle == [title |-> None, nimg |-> 0]
NoAttempt == [fetched |-> FALSE, rendered |-> FALSE, imgFails |-> 0]

VARIABLES
  links,            \* the CSV fields in reading order
  rowStart,         \* indices of the fields that begin a row after the first
  stdoutAscii,      \* standard output encodes ASCII only
  tracking0,        \* tracking file when the processor was constructed
  tracking,         \* tracking file now
  processed_links,  \* self.processed_links
  disk,             \* files under output_dir
  pc,               \* position in process_articles
  idx,              \* index of the current field
  article,          \* the Article of the current attempt
  pdf_path,         \* pdf_path of the current attempt
  imgIdx,           \* next image of article.images
  err,              \* exception raised by the last step ("none" if none)
  aborted,          \* why the loops were left early ("no" if they were not)
  att,              \* what the current attempt has completed
  fetches,          \* per URL: number of fetch_content calls
  fails,            \* per URL: number of attempts that raised
  renders,          \* URLs for which to_pdf was called
  appends,          \* URLs for which _save_processed_link was called
  succeeded,        \* URLs whose attempt ran lines 58-63 without raising
  appendFailed,     \* <<url, pdf_path>> of attempts whose append raised
  attempted,        \* indices of fields that entered the try of line 57
  skipped           \* indices of fields skipped at line 56

vars == <<links, rowStart, stdoutAscii, tracking0, tracking, processed_links,
          disk, pc, idx, article, pdf_path, imgIdx, err, aborted, att,
          fetches, fails, renders, appends, succeeded, appendFailed,
          attempted, skipped>>

\* What no step of the run changes.
env == <<links, rowStart, stdoutAscii, tracking0>>

link == Strip(links[idx])

Ascii(text) == \A i \in 1..Len(text) : text[i] \notin NonAscii
\* Standard output can encode text; otherwise print raises
\* UnicodeEncodeError.  Any print may also raise because its write fails
\* (closed stream, broken pipe, full device), whatever the text.
CanPrint(text) == ~stdoutAscii \/ Ascii(text)

Init ==
  /\ links \in SeqsUpTo(RawLinks, MaxInput)
  /\ rowStart \in SUBSET (2..Len(links))
  /\ stdoutAscii \in BOOLEAN
  /\ tracking0 \in TrackingFiles
  /\ tracking = tracking0
  /\ LoadProcessedLinks(tracking0).ok
  /\ processed_links = LoadProcessedLinks(tracking0).links
  /\ disk = {}
  /\ pc = "open"
  /\ idx = 1
  /\ article = NoArticle
  /\ pdf_path = <<>>
  /\ imgIdx = 1
  /\ err = "none"
  /\ aborted = "no"
  /\ att = NoAttempt
  /\ fetches = [u \in URLs |-> 0]
  /\ fails = [u \in URLs |-> 0]
  /\ renders = {}
  /\ appends = {}
  /\ succeeded = {}
  /\ appendFailed = {}
  /\ attempted = {}
  /\ skipped = {}

\* The Article of the attempt is dropped.
DropArticle ==
  /\ article' = NoArticle
  /\ pdf_path' = <<>>
  /\ imgIdx' = 1
  /\ att' = NoAttempt

\* The attempt on the current field is over; back to the for loop.
EndAttempt ==
  /\ pc' = "loop"
  /\ idx' = idx + 1
  /\ aborted' = aborted
  /\ DropArticle

\* except Exception at line 66: the message is printed and the run is
\* over; when the print of line 67 raises, process_articles raises.
AbortRun(why) ==
  /\ pc' = "done"
  /\ idx' = idx
  /\ aborted' \in {why, "uncaught"}
  /\ DropArticle

\* except Exception at line 64: print the link and the error, then go on
\* with the loop; the print raises when standard output cannot encode the
\* text, and may raise when its write fails: the exception leaves the
\* handler and is caught at line 66.
Raise(kind, msgAscii) ==
  /\ err' = kind
  /\ fails' = [fails EXCEPT ![link] = @ + 1]
  /\ \/ /\ CanPrint(link)
        /\ msgAscii \/ ~stdoutAscii
        /\ EndAttempt
     \/ AbortRun("print")

\* line 50: open the CSV; a failure is caught at line 66 and ends the run,
\* and the print of line 67 raises out of process_articles when it cannot
\* encode the error text or its write fails
OpenCsv ==
  /\ pc = "open"
  /\ \/ pc' = "loop" /\ aborted' = "no" /\ err' = "none"
     \/ pc' = "done" /\ aborted' = "open" /\ err' = "csv"
     \/ pc' = "done" /\ aborted' = "uncaught" /\ err' = "csv"
  /\ UNCHANGED <<env, tracking, processed_links, disk, idx, article,
                 pdf_path, imgIdx, att, fetches, fails, renders, appends,
                 succeeded, appendFailed, attempted, skipped>>

\* The reader is asked for a row before the first field of each row and at
\* the end of the input.
ReadsRow == idx = 1 \/ idx \in rowStart \/ idx > Len(links)

\* lines 52-58: next row or field; reading a row may raise (caught at line
\* 66); the stripped link is skipped, or its attempt starts with the print
\* of line 58, which raises when standard output cannot encode the link
\* and may raise when its write fails; the handler of line 64 then prints
NextLink ==
  /\ pc = "loop"
  /\ \/ /\ ReadsRow
        /\ err' = "read"
        /\ AbortRun("read")
        /\ UNCHANGED <<fails, attempted, skipped>>
     \/ /\ idx > Len(links)
        /\ pc' = "done"
        /\ err' = "none"
        /\ UNCHANGED <<idx, aborted, article, pdf_path, imgIdx, att, fails,
                       attempted, skipped>>
     \/ /\ idx <= Len(links)
        /\ SkipLink(link, processed_links)
        /\ pc' = "loop"
        /\ idx' = idx + 1
        /\ skipped' = skipped \cup {idx}
        /\ err' = "none"
        /\ UNCHANGED <<aborted, article, pdf_path, imgIdx, att, fails,
                       attempted>>
     \/ /\ idx <= Len(links)
        /\ ~SkipLink(link, processed_links)
        /\ attempted' = attempted \cup {idx}
        /\ \/ /\ CanPrint(link)
              /\ pc' = "fetch"
              /\ err' = "none"
              /\ UNCHANGED <<idx, aborted, article, pdf_path, imgIdx, att,
                             fails>>
           \/ Raise("print", TRUE)
        /\ UNCHANGED skipped
  /\ UNCHANGED <<env, tracking, processed_links, disk, fetches, renders,
                 appends, succeeded, appendFailed>>

\* lines 59-61 and 79-91: Article(link).fetch_content(), then pdf_path
FetchContent ==
  /\ pc = "fetch"
  /\ fetches' = [fetches EXCEPT ![link] = @ + 1]
  /\ \/ \E msgAscii \in BOOLEAN : Raise("fetch", msgAscii)
     \/ \E page \in Pages, n \in 0..MaxImages :
          /\ article' = [title |-> TitleOf(page), nimg |-> n]
          /\ pdf_path' = PdfPath(TitleOf(page))
          /\ att' = [att EXCEPT !.fetched = TRUE]
          /\ pc' = "render"
          /\ err' = "none"
          /\ UNCHANGED <<idx, imgIdx, fails, aborted>>
  /\ UNCHANGED <<env, tracking, processed_links, disk, renders, appends,
                 succeeded, appendFailed, attempted, skipped>>

\* lines 117-127: to_pdf builds the page, title and text
ToPdfBegin ==
  /\ pc = "render"
  /\ renders' = renders \cup {link}
  /\ \/ \E msgAscii \in BOOLEAN : Raise("pdf", msgAscii)
     \/ /\ pc' = "image"
        /\ imgIdx' = 1
        /\ err' = "none"
        /\ UNCHANGED <<idx, article, pdf_path, att, fails, aborted>>
  /\ UNCHANGED <<env, tracking, processed_links, disk, fetches, appends,
                 succeeded, appendFailed, attempted, skipped>>

\* lines 128-137: one iteration of the image loop; a failure of any step
\* is caught at line 136 and the loop goes on, unless the print of line 137
\* raises (it cannot encode the image URL or the error, or its write
\* fails): line 140 re-raises, with an ASCII message, to the handler of
\* line 64
ToPdfImage ==
  /\ pc = "image"
  /\ imgIdx <= article.nimg
  /\ \E outcome \in ImageOutcomes :
       /\ disk' = ImageDisk(outcome, disk, ImgPath(pdf_path))
       /\ \/ /\ att' = [att EXCEPT !.imgFails =
                                     IF outcome = "ok" THEN @ ELSE @ + 1]
             /\ imgIdx' = imgIdx + 1
             /\ err' = "none"
             /\ UNCHANGED <<pc, idx, article, pdf_path, fails, aborted>>
          \/ /\ outcome # "ok"
             /\ Raise("pdf", TRUE)
  /\ UNCHANGED <<env, tracking, processed_links, fetches, renders, appends,
                 succeeded, appendFailed, attempted, skipped>>

\* Variant of ToPdfOutput that logs a failed write instead of re-raising.
ToPdfOutputSwallows ==
  /\ pc = "image"
  /\ imgIdx > article.nimg
  /\ \/ /\ disk' = disk \cup {pdf_path}
        /\ att' = [att EXCEPT !.rendered = TRUE]
     \/ UNCHANGED <<disk, att>>
  /\ pc' = "append"
  /\ err' = "none"
  /\ UNCHANGED <<env, tracking, processed_links, idx, article, pdf_path,
                 imgIdx, aborted, fetches, fails, renders, appends,
                 succeeded, appendFailed, attempted, skipped>>

\* line 138: pdf.output(pdf_path); a failure is re-raised at line 140,
\* before the file was created or with the file left behind (its write
\* failed)
ToPdfOutput ==
  /\ pc = "image"
  /\ imgIdx > article.nimg
  /\ \/ /\ disk' = disk \cup {pdf_path}
        /\ att' = [att EXCEPT !.rendered = TRUE]
        /\ pc' = "append"
        /\ err' = "none"
        /\ UNCHANGED <<idx, article, pdf_path, imgIdx, fails, aborted>>
     \/ /\ \E msgAscii \in BOOLEAN : Raise("pdf", msgAscii)
        /\ disk' \in {disk, disk \cup {pdf_path}}
  /\ UNCHANGED <<env, tracking, processed_links, fetches, renders, appends,
                 succeeded, appendFailed, attempted, skipped>>

\* lines 41-42: append link + '\n' to the tracking file, after whatever its
\* last line is; a failure raises before line 43 and is caught at line 64,
\* with none or some of the bytes written and no newline
SaveAppend ==
  /\ pc = "append"
  /\ appends' = appends \cup {link}
  /\ \/ /\ tracking' = WriteAtEnd(tracking, Encode(link), TRUE)
        /\ pc' = "add"
        /\ err' = "none"
        /\ UNCHANGED <<idx, article, pdf_path, imgIdx, att, fails, aborted,
                       appendFailed>>
     \/ /\ \E k \in 0..Len(Encode(link)) :
             tracking' =
               WriteAtEnd(tracking, SubSeq(Encode(link), 1, k), FALSE)
        /\ appendFailed' = appendFailed \cup {<<link, pdf_path>>}
        /\ \E msgAscii \in BOOLEAN : Raise("save", msgAscii)
  /\ UNCHANGED <<env, processed_links, disk, fetches, renders, succeeded,
                 attempted, skipped>>

\* Variant of SaveAdd that leaves the in-memory set unchanged.
SaveAddForgets ==
  /\ pc = "add"
  /\ UNCHANGED processed_links
  /\ succeeded' = succeeded \cup {link}
  /\ err' = "none"
  /\ EndAttempt
  /\ UNCHANGED <<env, tracking, disk, fetches, fails, renders, appends,
                 appendFailed, attempted, skipped>>

\* line 43: self.processed_links.add(link); the attempt is complete
SaveAdd ==
  /\ pc = "add"
  /\ processed_links' = processed_links \cup {link}
  /\ succeeded' = succeeded \cup {link}
  /\ err' = "none"
  /\ EndAttempt
  /\ UNCHANGED <<env, tracking, disk, fetches, fails, renders, appends,
                 appendFailed, attempted, skipped>>

Next ==
  \/ OpenCsv
  \/ NextLink
  \/ FetchContent
  \/ ToPdfBegin
  \/ ToPdfImage
  \/ ToPdfOutput
  \/ SaveAppend
  \/ SaveAdd

Spec == Init /\ [][Next]_vars

\* ------------------------------------------------------------ properties
Loaded == LoadProcessedLinks(tracking0).links

\* Number of lines of the file that are the bytes of url, surrounding
\* whitespace aside.
Count(url, file) ==
  Cardinality({i \in 1..Len(file.lines) :
                 Strip(file.lines[i]) = Encode(url)})
Occurrences(u) == Cardinality({i \in 1..Len(links) : Strip(links[i]) = u})
PdfFiles == {p \in disk : IsPdf(p)}
AllHandled == idx > Len(links) /\ attempted \cup skipped = 1..Len(links)

\* C1: a URL that is in the tracking file at construction is never fetched,
\* never rendered and never appended again, however often the input names
\* it and whatever happens to the other URLs.
C1_TrackedNeverProcessed ==
  \A u \in Loaded :
    /\ u \in URLs => fetches[u] = 0
    /\ u \notin renders
    /\ u \notin appends

C1_Witness ==
  /\ pc = "done"
  /\ aborted = "no"
  /\ \E u \in Loaded : Occurrences(u) >= 1 /\ succeeded \ {u} # {}

\* C2: after the run, a URL whose attempt completed in the run is a line of
\* the tracking file exactly once.
C2_SucceededExactlyOnce ==
  pc = "done" => \A u \in succeeded : Count(u, tracking) = 1

\* C3: the tracking file and the processed set change only for the current
\* link and only after its fetch_content and then its to_pdf returned and
\* the PDF is on disk, the set only after the append returned; a step in
\* which the fetch or the render raises changes neither.
C3_MarkOnlyAfterFetchAndRender ==
  [][ /\ (att'.rendered => att'.fetched)
      /\ (tracking' # tracking \/ processed_links' # processed_links) =>
            /\ att.fetched /\ att.rendered
            /\ pdf_path \in disk
            /\ link \in renders
            /\ fetches[link] >= 1
            /\ processed_links' \in {processed_links, processed_links \cup {link}}
            /\ (processed_links' # processed_links =>
                  pc = "add" /\ link \in appends)
      /\ (err' \in {"fetch", "pdf", "print"} =>
            tracking' = tracking /\ processed_links' = processed_links)
    ]_vars

C3_Witness ==
  /\ succeeded # {}
  /\ \E u \in URLs : fails[u] >= 1 /\ u \notin processed_links /\ u \in renders

\* C4: a run whose CSV was opened and read ends with every field either
\* attempted or skipped at line 56: no failure inside an attempt ends it.
C4_BatchNeverAborted ==
  (pc = "done" /\ err \notin {"csv", "read"}) => AllHandled

\* C5: an iteration of the image loop never raises out of to_pdf: it moves
\* to the next image, so the final write is reached with every image
\* attempted, and a final write that succeeds returns to the caller, which
\* goes on to mark the URL done.
C5_ImageFailureDoesNotAbort ==
  [][ /\ (pc = "image" /\ imgIdx <= article.nimg) =>
            pc' = "image" /\ imgIdx' = imgIdx + 1 /\ err' = "none"
      /\ (pc = "image" /\ imgIdx > article.nimg /\ err' = "none") =>
            pc' = "append" /\ pdf_path \in disk'
    ]_vars

\* C6: after the run, a URL whose append failed after a successful render
\* is not in the tracking file and its PDF exists.
C6_FailedAppendNotInFile ==
  pc = "done" =>
    \A af \in appendFailed : Count(af[1], tracking) = 0 /\ af[2] \in disk

\* C7: from an empty output directory, after a run that read the whole
\* input and in which no attempt failed, the number of PDF files equals the
\* number of URLs marked done.
C7_OnePdfPerDoneUrl ==
  (pc = "done" /\ aborted = "no" /\ \A u \in URLs : fails[u] = 0) =>
    Cardinality(PdfFiles) = Cardinality(succeeded)

\* C8 as claimed: within one run each URL is fetched at most once.
C8_Original == \A u \in URLs : fetches[u] <= 1

\* C8 amended: a URL in the processed set is never fetched, each step
\* fetches at most one URL once, and a URL is fetched again only after an
\* attempt on it failed: its fetches never exceed its failed attempts plus
\* one, and are at most one once it is marked done without a failure.
C8_Amended ==
  [][ /\ \A u \in URLs :
           /\ fetches'[u] <= fails'[u] + 1
           /\ fetches'[u] # fetches[u] =>
                 /\ u \notin processed_links
                 /\ u = link
                 /\ fetches'[u] = fetches[u] + 1
                 /\ fetches[u] <= fails[u]
      /\ pc' \in {"fetch", "render", "image", "append", "add"} =>
            Strip(links[idx']) \notin processed_links'
    ]_vars

C8_Witness ==
  /\ pc = "done"
  /\ \E u \in succeeded : fetches[u] >= 2 /\ Occurrences(u) >= 2

\* C9: no temporary image file is on disk once to_pdf has finished
\* handling an image.
C9_NoTempImageLeft == \A p \in disk : ~IsTempImage(p)

\* C10: the processed set is the set loaded at startup plus the URLs whose
\* append succeeded in this run, and every member of it is a line of the
\* tracking file.
C10_MemoryMatchesFile ==
  /\ processed_links = Loaded \cup succeeded
  /\ \A af \in appendFailed : af[1] \in processed_links => af[1] \in succeeded
  /\ \A u \in processed_links : Count(u, tracking) >= 1
====
